---- MODULE Spec2Model ----
(***************************************************************************)
(* Model of koishi-plugin-messages: the per-channel SyncChannel actor      *)
(* (packages/core/src/channel.ts) and the MessageService registry          *)
(* (packages/core/src/index.ts), for one channel.  The actor is the        *)
(* SyncChannel of that channel; its platform, guildId and channelId are    *)
(* fixed; what the constructor call of the registry stores as its          *)
(* identity is kept apart in `identity`.  Bot ids are non-empty strings.   *)
(* The actor reads and writes table chat.message (store); the handlers of  *)
(* edit and delete events write table message.                             *)
(*                                                                         *)
(* JavaScript runs every handler to completion: an action of this model is *)
(* one macrotask, i.e. an incoming event or the completion of one store or *)
(* remote call, together with every promise continuation it releases.      *)
(* Message ids are integers that grow with time; the timestamp of message  *)
(* m is m and Date.now() is the id of the newest upstream message (top).   *)
(***************************************************************************)
EXTENDS Integers, Sequences, FiniteSets, TLC

\* ---------------------------------------------------------------- bounds
MaxTop == 4          \* largest upstream message id
MaxStored == 2       \* records left in the store by an earlier run
MaxInflight == 1     \* live events suspended in the registry at once
PageSize == 2        \* messages per page of the remote source
Week == 100          \* maxAge large enough that nothing is dropped
ShortAge == 2        \* a short configured maxAge
MaxCount == 3        \* largest count asked of getHistory and getMessages
MaxCalls == 1        \* calls of getHistory and getMessages
MaxUpdates == 1      \* edit and delete events
MaxSending == 1      \* send events suspended in the registry at once

Bots == {"A", "B"}
NoBot == "none"
NoId == 0           \* undefined messageId
Pending == -1       \* a query that has not returned yet

VARIABLES
  order,        \* order of a page of bot.getMessageList: "asc" or "desc"
  maxAge,       \* ctx.messages.config.maxAge
  metaAssignee, \* assignee column of database.getChannel
  stopped,      \* MessageService.stopped
  top,          \* newest upstream message id; also the clock
  remote,       \* ids of the messages the remote source can serve
  inflight,     \* sessions suspended in #onMessage at getChannel
  channels,     \* MessageService._channels has the actor of the channel
  status,       \* SyncChannel.status
  data,         \* SyncChannel.data: assignee, initial
  buffer,       \* SyncChannel._buffer
  initTask,     \* SyncChannel._initTask: unset, pending, fulfilled, rejected
  queueTask,    \* SyncChannel._queueTask: resolved, pending, rejected
  initPc,       \* position of _init: idle, query, fetch, flush, done
  initial,      \* messageId found by the ascending query of _init
  final,        \* result of the descending query of _init
  trigger,      \* messageId of the session _init was started with
  next,         \* cursor of syncHistory
  waiting,      \* number of queue callbacks suspended at `await this.init`
  chain,        \* tickets of the flushes chained on _queueTask, not started
  tickets,      \* number of flushes chained so far
  lastStarted,  \* ticket of the chained flush that started last
  flushes,      \* executions of flush() suspended at `await this.adapt`
  store,        \* table chat.message of the channel: id -> record
  flushed,      \* batches upserted by flush(), in order
  notified,     \* ids carried by the chat/message events emitted so far
  channelReady, \* number of chat/channel events emitted
  syncFailed,   \* number of messages/syncFailed events emitted
  queued,       \* the calls of queue(), in order, with what they met
  initStarts,   \* number of times the body of _init was started
  observed,     \* the outcome of _initTask each awaiting callback saw
  ioFailed,     \* some store or remote call has failed
  hist,         \* the running call of getHistory or getMessages
  histWrites,   \* number of upserts made by getHistory
  calls,        \* number of calls of getHistory and getMessages
  message,      \* table message of the platform: messageId -> row
  updates,      \* the database.set calls of the edit and delete handlers
  sending,      \* sessions of send events suspended at bot.getMessage
  identity,     \* data.platform, data.guildId, data.channelId of the actor
  created       \* number of SyncChannel objects constructed

vars == <<order, maxAge, metaAssignee, stopped, top, remote, inflight,
          channels, status, data, buffer, initTask, queueTask, initPc,
          initial, final, trigger, next, waiting, chain, tickets,
          lastStarted, flushes, store, flushed, notified, channelReady,
          syncFailed, queued, initStarts, observed, ioFailed, hist,
          histWrites, calls, message, updates, sending, identity,
          created>>

envVars == <<order, maxAge, metaAssignee, stopped, top, remote>>
initVars == <<initPc, initial, final, trigger, next>>
logVars == <<flushed, notified, channelReady, syncFailed>>
histVars == <<hist, histWrites, calls>>
regVars == <<message, updates, sending, identity, created>>
actorVars == <<channels, status, data, buffer, initTask, queueTask, initVars,
               waiting, chain, tickets, lastStarted, flushes, queued,
               initStarts, observed>>

\* --------------------------------------------------------------- helpers
Max(S) == CHOOSE m \in S : \A k \in S : k <= m
Min2(a, b) == IF a < b THEN a ELSE b
Reverse(s) == [i \in 1..Len(s) |-> s[Len(s) + 1 - i]]
Ids(s) == {s[i].id : i \in 1..Len(s)}

RECURSIVE Desc(_)
Desc(S) == IF S = {} THEN <<>>
           ELSE LET m == Max(S) IN <<m>> \o Desc(S \ {m})

\* a session of a live message event: it carries the content the message
\* had when the event was raised
Session(m, s) == [id |-> m, selfId |-> s, live |-> TRUE,
                  content |-> "original", deleted |-> FALSE]
\* a Universal.Message returned by bot.getMessageList: the remote source
\* serves the content the message has now
Fetched(m) == [id |-> m, selfId |-> NoBot, live |-> FALSE,
               content |-> IF \E u \in updates : u.id = m /\ u.op = "updated"
                           THEN "edited" ELSE "original",
               deleted |-> FALSE]
\* the row of a record in a table keyed by messageId
Row(r) == [selfId |-> r.selfId, live |-> r.live, content |-> r.content,
           deleted |-> r.deleted]
\* the record of row k of table t
Record(t, k) == [id |-> k, selfId |-> t[k].selfId, live |-> t[k].live,
                 content |-> t[k].content, deleted |-> t[k].deleted]
\* a row left in a table by an earlier run
OldRow == [selfId |-> NoBot, live |-> FALSE, content |-> "original",
           deleted |-> FALSE]

\* bot.getMessageList(channelId, next): the PageSize newest messages older
\* than the cursor (the newest ones without a cursor)
getMessageList(cursor) ==
  LET older == {m \in remote : cursor = NoId \/ m < cursor}
      newest == Desc(older)
      page == SubSeq(newest, 1, Min2(PageSize, Len(newest)))
  IN  IF order = "desc" THEN page ELSE Reverse(page)

\* the filter of adapt: Date.now() - +message.timestamp < maxAge
Fresh(m) == top - m.id < maxAge

\* adapt that maps the batch back to front
adapt_reverse(batch) ==
  [data |-> Reverse(batch), rows |-> SelectSeq(Reverse(batch), Fresh)]

\* adapt(buffer) up to its await: the records and the rows handed to upsert
adapt(batch) == [data |-> batch, rows |-> SelectSeq(batch, Fresh)]

\* database.upsert keyed by messageId: a later row of the same key wins
RECURSIVE upsert(_, _)
upsert(st, rows) ==
  IF rows = <<>> THEN st
  ELSE LET r == Head(rows)
           st1 == [k \in DOMAIN st \cup {r.id} |->
                     IF k = r.id THEN Row(r)
                     ELSE st[k]]
       IN upsert(st1, Tail(rows))

\* accept without the early return: every sender is adopted
accept_adopt(assignee, selfId) == [assignee |-> selfId, reject |-> FALSE]

\* SyncChannel.accept: the assignee afterwards and whether the session is
\* rejected (sessions of the model carry no channelName)
accept(assignee, selfId) ==
  IF assignee = NoBot THEN [assignee |-> selfId, reject |-> FALSE]
  ELSE IF assignee # selfId THEN [assignee |-> assignee, reject |-> TRUE]
  ELSE [assignee |-> assignee, reject |-> FALSE]

\* SyncChannel.ensure: the two early returns
ensure(st, stop) == ~(st = "FAILED") /\ ~stop

\* a catch block that sends a synced actor back to syncing
ensureCatch_resync(st) == IF st = "SYNCED" THEN "SYNCING" ELSE "FAILED"

\* SyncChannel.ensure: the catch block
ensureCatch(st) == "FAILED"

\* init without the memo: `this._init(session)` on every call
init_always(task) == TRUE

\* SyncChannel.init: `_initTask ||= this._init(session)` starts the body
\* only when no task is stored
init(task) == task = "unset"

\* `this.flush()` called without waiting for the flush chained before
chainThen_direct(qt) == IF qt = "rejected" THEN "skip" ELSE "run"

\* `_queueTask.finally(() => this.flush())`: the callback also runs after a
\* rejected flush
chainThen_finally(qt) == IF qt = "pending" THEN "wait" ELSE "run"

\* `_queueTask.then(() => this.flush())`: what happens to the callback
chainThen(qt) == CASE qt = "resolved" -> "run"
                   [] qt = "pending" -> "wait"
                   [] qt = "rejected" -> "skip"

\* the channel of the model: session.platform, session.guildId,
\* session.channelId of every event
EventChannel == [platform |-> "p", guildId |-> "g", channelId |-> "c"]
Undefined == "undefined"
\* no actor has been constructed
NoActor == [platform |-> Undefined, guildId |-> Undefined,
            channelId |-> Undefined]

\* the constructor of SyncChannel: this.data = { platform, guildId,
\* channelId }
SyncChannel(platform, guildId, channelId) ==
  [platform |-> platform, guildId |-> guildId, channelId |-> channelId]

\* no call of getHistory or getMessages has been made
NoCall == [pc |-> "idle", op |-> "none", count |-> 0, next |-> NoId,
           buffer |-> <<>>, local |-> <<>>, batch |-> adapt(<<>>),
           result |-> <<>>, at |-> "none", before |-> NoId, pages |-> 0]

\* ------------------------------------------------------------------ Init
Init ==
  /\ order \in {"asc", "desc"}
  /\ maxAge \in {ShortAge, Week}
  /\ metaAssignee = "A"
  /\ stopped = FALSE
  /\ \E n \in 0..MaxStored :
       /\ store = [k \in 1..n |-> OldRow]
       /\ message = [k \in 1..n |-> OldRow]
       /\ top \in n..(MaxTop - 1)
       /\ remote \in {1..top, (1..top) \ {n}}
  /\ inflight = {}
  /\ channels = FALSE
  /\ status = "SYNCING"
  /\ data = [assignee |-> NoBot, initial |-> NoId]
  /\ buffer = <<>>
  /\ initTask = "unset"
  /\ queueTask = "resolved"
  /\ initPc = "idle"
  /\ initial = Pending
  /\ final = Pending
  /\ trigger = NoId
  /\ next = NoId
  /\ waiting = 0
  /\ chain = <<>>
  /\ tickets = 0
  /\ lastStarted = 0
  /\ flushes = {}
  /\ flushed = <<>>
  /\ notified = {}
  /\ channelReady = 0
  /\ syncFailed = 0
  /\ queued = <<>>
  /\ initStarts = 0
  /\ observed = <<>>
  /\ ioFailed = FALSE
  /\ hist = NoCall
  /\ histWrites = 0
  /\ calls = 0
  /\ updates = {}
  /\ sending = {}
  /\ identity = NoActor
  /\ created = 0

\* ------------------------------------------------------------ environment
\* A message is posted upstream; the bots in ss receive its event and
\* #onMessage suspends at database.getChannel for each of them.
NewMessage(ss) ==
  /\ top < MaxTop
  /\ Cardinality(inflight) + Cardinality(ss) <= MaxInflight
  /\ top' = top + 1
  /\ remote' = remote \cup {top + 1}
  /\ inflight' = inflight \cup {Session(top + 1, s) : s \in ss}
  /\ UNCHANGED <<histVars, regVars, order, maxAge, metaAssignee, stopped, channels, status,
                 data, buffer, initTask, queueTask, initVars, waiting,
                 chain, tickets, lastStarted, flushes, store, logVars,
                 queued, initStarts, observed, ioFailed>>

\* The configured assignee of the channel is changed in the channel table.
ChangeAssignee(b) ==
  /\ b # metaAssignee
  /\ metaAssignee' = b
  /\ UNCHANGED <<histVars, regVars, order, maxAge, stopped, top, remote, inflight, channels,
                 status, data, buffer, initTask, queueTask, initVars,
                 waiting, chain, tickets, lastStarted, flushes, store,
                 logVars, queued, initStarts, observed, ioFailed>>

\* MessageService.stop
stop ==
  /\ ~stopped
  /\ stopped' = TRUE
  /\ UNCHANGED <<histVars, regVars, order, maxAge, metaAssignee, top, remote, inflight,
                 channels, status, data, buffer, initTask, queueTask,
                 initVars, waiting, chain, tickets, lastStarted, flushes,
                 store, logVars, queued, initStarts, observed, ioFailed>>

\* ------------------------------------------------- settling of _initTask
\* _init lines 137-139, then every callback of queue suspended at
\* `await this.init(session)` resumes in order and chains its flush on
\* _queueTask; the first chained flush starts at once.  buf and fl are
\* _buffer and the running flushes at that moment.
InitFulfilled(buf, fl, ini) ==
  /\ status' = "SYNCED"
  /\ data' = [data EXCEPT !.initial = ini]
  /\ channelReady' = channelReady + 1
  /\ initTask' = "fulfilled"
  /\ initPc' = "done"
  /\ observed' = observed \o [i \in 1..waiting |-> "fulfilled"]
  /\ waiting' = 0
  /\ tickets' = tickets + waiting
  /\ IF waiting > 0 /\ chainThen(queueTask) = "run" /\ buf # <<>>
     THEN /\ flushes' = fl \cup {[by |-> "queue", ticket |-> tickets + 1,
                                  iter |-> 1, batch |-> adapt(buf)]}
          /\ buffer' = <<>>
          /\ queueTask' = "pending"
          /\ chain' = chain \o [i \in 1..(waiting - 1) |-> tickets + 1 + i]
          /\ lastStarted' = tickets + 1
     ELSE /\ flushes' = fl
          /\ buffer' = buf
          /\ queueTask' = queueTask
          /\ chain' = IF chainThen(queueTask) = "wait"
                      THEN chain \o [i \in 1..waiting |-> tickets + i]
                      ELSE chain
          /\ lastStarted' = IF chainThen(queueTask) = "run"
                            THEN tickets + waiting ELSE lastStarted

\* _init throws: every callback suspended at `await this.init(session)`
\* lands in the catch block of ensure.
InitRejected(buf, fl) ==
  /\ initTask' = "rejected"
  /\ initPc' = "done"
  /\ status' = IF waiting > 0 THEN ensureCatch(status) ELSE status
  /\ observed' = observed \o [i \in 1..waiting |-> "rejected"]
  /\ waiting' = 0
  /\ buffer' = buf
  /\ flushes' = fl
  /\ UNCHANGED <<data, channelReady, tickets, queueTask, chain, lastStarted>>

\* ------------------------------------------------------------- the actor
\* SyncChannel.queue(session), with the callback it hands to ensure up to
\* its first await.
queue(e) ==
  LET a == accept(data.assignee, e.selfId)
      buf == Append(buffer, e)
  IN
  /\ queued' = Append(queued, [id |-> e.id, selfId |-> e.selfId,
                                rejected |-> a.reject, at |-> status,
                                stopped |-> stopped])
  /\ IF a.reject
     THEN UNCHANGED <<status, data, buffer, initTask, queueTask, initVars,
                      waiting, chain, tickets, lastStarted, flushes,
                      initStarts, observed>>
     ELSE
       /\ data' = [data EXCEPT !.assignee = a.assignee]
       /\ IF ~ensure(status, stopped)
          THEN /\ buffer' = buf
               /\ UNCHANGED <<status, initTask, queueTask, initVars, waiting,
                              chain, tickets, lastStarted, flushes,
                              initStarts, observed>>
          ELSE IF status = "SYNCING"
          THEN /\ buffer' = buf
               /\ IF init(initTask)
                  THEN /\ initTask' = "pending"
                       /\ initPc' = "query"
                       /\ initial' = Pending
                       /\ final' = Pending
                       /\ trigger' = e.id
                       /\ next' = NoId
                       /\ initStarts' = initStarts + 1
                       /\ waiting' = waiting + 1
                       /\ UNCHANGED <<status, observed>>
                  ELSE /\ UNCHANGED <<initTask, initVars, initStarts>>
                       /\ IF initTask = "pending"
                          THEN /\ waiting' = waiting + 1
                               /\ UNCHANGED <<status, observed>>
                          ELSE /\ waiting' = waiting
                               /\ observed' = Append(observed, initTask)
                               /\ status' = IF initTask = "rejected"
                                            THEN ensureCatch(status)
                                            ELSE status
               /\ UNCHANGED <<queueTask, chain, tickets, lastStarted, flushes>>
          ELSE IF status # "SYNCED"
          THEN /\ buffer' = buf
               /\ UNCHANGED <<status, initTask, queueTask, initVars, waiting,
                              chain, tickets, lastStarted, flushes,
                              initStarts, observed>>
          ELSE \* return this._queueTask = this._queueTask.then(...)
               /\ tickets' = tickets + 1
               /\ UNCHANGED <<initTask, initVars, waiting, initStarts,
                              observed>>
               /\ CASE chainThen(queueTask) = "run" ->
                         /\ flushes' = flushes \cup
                              {[by |-> "queue", ticket |-> tickets + 1,
                                iter |-> 1, batch |-> adapt(buf)]}
                         /\ buffer' = <<>>
                         /\ queueTask' = "pending"
                         /\ lastStarted' = tickets + 1
                         /\ UNCHANGED <<status, chain>>
                    [] chainThen(queueTask) = "wait" ->
                         /\ chain' = Append(chain, tickets + 1)
                         /\ buffer' = buf
                         /\ UNCHANGED <<status, queueTask, lastStarted,
                                        flushes>>
                    [] chainThen(queueTask) = "skip" ->
                         /\ status' = ensureCatch(status)
                         /\ buffer' = buf
                         /\ UNCHANGED <<queueTask, chain, lastStarted,
                                        flushes>>

\* MessageService.#onMessage after `await getChannel`: the assignee check,
\* the lazy creation of the actor (`_channels[cid] ||= new SyncChannel(ctx,
\* session.platform, session.channelId)`) and the call of queue.
onMessage(e) ==
  /\ e \in inflight
  /\ inflight' = inflight \ {e}
  /\ IF metaAssignee # e.selfId
     THEN UNCHANGED <<channels, status, data, buffer, initTask, queueTask,
                      initVars, waiting, chain, tickets, lastStarted,
                      flushes, queued, initStarts, observed, identity,
                      created>>
     ELSE /\ channels' = TRUE
          /\ identity' = IF channels THEN identity
                          ELSE SyncChannel(EventChannel.platform,
                                           EventChannel.channelId, Undefined)
          /\ created' = IF channels THEN created ELSE created + 1
          /\ queue(e)
  /\ UNCHANGED <<histVars, message, updates, sending, envVars, store,
                 logVars, ioFailed>>

\* database.getChannel rejects: #onMessage throws and the session is lost.
onMessageFail(e) ==
  /\ e \in inflight
  /\ inflight' = inflight \ {e}
  /\ ioFailed' = TRUE
  /\ UNCHANGED <<histVars, regVars, envVars, channels, status, data, buffer, initTask,
                 queueTask, initVars, waiting, chain, tickets, lastStarted,
                 flushes, store, logVars, queued, initStarts, observed>>

\* the loop body without `data.reverse()`: the page is walked from its front
RECURSIVE syncHistory_forward(_, _, _)
syncHistory_forward(buf, page, rear) ==
  IF page = <<>> THEN [buffer |-> buf, found |-> FALSE]
  ELSE LET m == Head(page) IN
       IF m = rear THEN [buffer |-> buf, found |-> TRUE]
       ELSE syncHistory_forward(<<Fetched(m)>> \o buf, Tail(page), rear)

\* the loop body with push in place of unshift
RECURSIVE syncHistory_push(_, _, _)
syncHistory_push(buf, page, rear) ==
  IF page = <<>> THEN [buffer |-> buf, found |-> FALSE]
  ELSE LET m == page[Len(page)] IN
       IF m = rear THEN [buffer |-> buf, found |-> TRUE]
       ELSE syncHistory_push(Append(buf, Fetched(m)),
                             SubSeq(page, 1, Len(page) - 1), rear)

\* The loop body of syncHistory after a page has arrived: walk the page in
\* reverse, unshift each message, stop at rear.
RECURSIVE syncHistory(_, _, _)
syncHistory(buf, page, rear) ==
  IF page = <<>> THEN [buffer |-> buf, found |-> FALSE]
  ELSE LET m == page[Len(page)] IN
       IF m = rear THEN [buffer |-> buf, found |-> TRUE]
       ELSE syncHistory(<<Fetched(m)>> \o buf,
                        SubSeq(page, 1, Len(page) - 1), rear)

\* _init that backfills whatever the descending query found
backfill_always(fin) == TRUE

\* _init: `if (final)`, the backfill runs when a newest record exists
backfill(fin) == fin # NoId

\* _init after Promise.all: syncHistory when a newest record exists, else
\* done.
Queried(ini, fin) ==
  IF backfill(fin)
  THEN /\ initPc' = "fetch"
       /\ next' = trigger
       /\ UNCHANGED <<status, data, buffer, initTask, queueTask, waiting,
                      chain, tickets, lastStarted, flushes, channelReady,
                      observed>>
  ELSE /\ next' = next
       /\ InitFulfilled(buffer, flushes, ini)

\* The ascending query of _init returns.
InitQueryOldest ==
  /\ initPc = "query" /\ initial = Pending
  /\ initial' = IF DOMAIN store = {} THEN NoId
                ELSE CHOOSE m \in DOMAIN store : \A k \in DOMAIN store : m <= k
  /\ IF final = Pending
     THEN UNCHANGED <<initPc, next, status, data, buffer, initTask, queueTask,
                      waiting, chain, tickets, lastStarted, flushes,
                      channelReady, observed>>
     ELSE Queried(initial', final)
  /\ UNCHANGED <<histVars, regVars, envVars, inflight, channels, final, trigger, store, flushed,
                 notified, syncFailed, queued, initStarts, ioFailed>>

\* The descending query of _init returns.
InitQueryNewest ==
  /\ initPc = "query" /\ final = Pending
  /\ final' = IF DOMAIN store = {} THEN NoId ELSE Max(DOMAIN store)
  /\ IF initial = Pending
     THEN UNCHANGED <<initPc, next, status, data, buffer, initTask, queueTask,
                      waiting, chain, tickets, lastStarted, flushes,
                      channelReady, observed>>
     ELSE Queried(initial, final')
  /\ UNCHANGED <<histVars, regVars, envVars, inflight, channels, initial, trigger, store,
                 flushed, notified, syncFailed, queued, initStarts,
                 ioFailed>>

\* One of the two queries of _init rejects: Promise.all rejects.
InitQueryFail ==
  /\ initPc = "query"
  /\ ioFailed' = TRUE
  /\ InitRejected(buffer, flushes)
  /\ UNCHANGED <<histVars, regVars, envVars, inflight, channels, initial, final, trigger, next,
                 store, flushed, notified, syncFailed, queued, initStarts>>

\* bot.getMessageList of syncHistory returns a page.
SyncPage ==
  /\ initPc = "fetch"
  /\ LET page == getMessageList(next) IN
     IF page = <<>>
     THEN \* data[0].messageId of an empty page throws a TypeError
          /\ InitRejected(buffer, flushes)
          /\ UNCHANGED <<next>>
     ELSE LET r == syncHistory(buffer, page, final) IN
          /\ next' = page[1]
          /\ IF ~r.found
             THEN /\ buffer' = r.buffer
                  /\ UNCHANGED <<initPc, status, data, initTask, queueTask,
                                 waiting, chain, tickets, lastStarted,
                                 flushes, channelReady, observed>>
             ELSE IF r.buffer = <<>>
             THEN InitFulfilled(r.buffer, flushes, initial)
             ELSE /\ initPc' = "flush"
                  /\ buffer' = <<>>
                  /\ flushes' = flushes \cup {[by |-> "init", ticket |-> 0, iter |-> 1,
                                               batch |-> adapt(r.buffer)]}
                  /\ UNCHANGED <<status, data, initTask, queueTask, waiting,
                                 chain, tickets, lastStarted, channelReady,
                                 observed>>
  /\ UNCHANGED <<histVars, regVars, envVars, inflight, channels, initial, final, trigger, store,
                 flushed, notified, syncFailed, queued, initStarts,
                 ioFailed>>

\* bot.getMessageList of syncHistory rejects.
SyncPageFail ==
  /\ initPc = "fetch"
  /\ ioFailed' = TRUE
  /\ InitRejected(buffer, flushes)
  /\ UNCHANGED <<histVars, regVars, envVars, inflight, channels, initial, final, trigger, next,
                 store, flushed, notified, syncFailed, queued, initStarts>>

\* The upsert of adapt returns inside an execution f of flush: the batch is
\* stored, chat/message is emitted and the loop of flush goes on.
flush(f) ==
  /\ f \in flushes
  /\ store' = upsert(store, f.batch.rows)
  /\ flushed' = Append(flushed, f.batch)
  /\ notified' = notified \cup Ids(f.batch.data)
  /\ IF buffer # <<>>
     THEN /\ flushes' = (flushes \ {f}) \cup {[f EXCEPT !.batch = adapt(buffer), !.iter = f.iter + 1]}
          /\ buffer' = <<>>
          /\ UNCHANGED <<status, data, initTask, queueTask, initPc, waiting,
                         chain, tickets, lastStarted, channelReady, observed>>
     ELSE IF f.by = "init"
     THEN InitFulfilled(buffer, flushes \ {f}, initial)
     ELSE \* the flushes chained behind f find the buffer empty
          /\ flushes' = flushes \ {f}
          /\ queueTask' = IF flushes \ {f} = {} THEN "resolved" ELSE queueTask
          /\ chain' = <<>>
          /\ lastStarted' = IF chain = <<>> THEN lastStarted
                            ELSE chain[Len(chain)]
          /\ UNCHANGED <<status, data, buffer, initTask, initPc, waiting,
                         tickets, channelReady, observed>>
  /\ UNCHANGED <<histVars, regVars, envVars, inflight, channels, initial, final, trigger, next,
                 syncFailed, queued, initStarts, ioFailed>>

\* The upsert of adapt rejects inside an execution f of flush.
flushFail(f) ==
  /\ f \in flushes
  /\ ioFailed' = TRUE
  /\ IF f.by = "init"
     THEN InitRejected(buffer, flushes \ {f})
     ELSE \* the promise of f rejects and the ensure awaiting it lands in its
          \* catch block; so does every promise chained behind it, whose
          \* callback is skipped
          /\ status' = ensureCatch(status)
          /\ IF chain # <<>> /\ chainThen("rejected") = "run"
             THEN /\ flushes' = (flushes \ {f}) \cup
                       {[by |-> "queue", ticket |-> Head(chain), iter |-> 1,
                         batch |-> adapt(buffer)]}
                  /\ buffer' = <<>>
                  /\ chain' = Tail(chain)
                  /\ queueTask' = "pending"
                  /\ lastStarted' = Head(chain)
             ELSE /\ flushes' = flushes \ {f}
                  /\ queueTask' = "rejected"
                  /\ chain' = <<>>
                  /\ UNCHANGED <<buffer, lastStarted>>
          /\ UNCHANGED <<data, initTask, initPc, waiting, tickets,
                         channelReady, observed>>
  /\ UNCHANGED <<histVars, regVars, envVars, inflight, channels, initial, final, trigger, next,
                 store, flushed, notified, syncFailed, queued, initStarts>>

\* ------------------------------------------- getHistory and getMessages
\* SyncChannel.getHistory(count, next) is called and suspends at its first
\* bot.getMessageList.
getHistory(count, cursor) ==
  /\ channels /\ hist.pc \in {"idle", "done"} /\ calls < MaxCalls
  /\ calls' = calls + 1
  /\ hist' = [NoCall EXCEPT !.pc = "fetch", !.op = "getHistory",
                            !.count = count, !.next = cursor,
                            !.before = cursor]
  /\ UNCHANGED <<regVars, envVars, inflight, actorVars, store, logVars, ioFailed,
                 histWrites>>

\* bot.getMessageList of getHistory returns a page: the loop goes on or
\* adapt(buffer.reverse()) is called and suspends at its upsert.
HistoryPage ==
  /\ hist.pc = "fetch"
  /\ LET page == getMessageList(hist.next)
         buf == hist.buffer \o [i \in 1..Len(page) |-> Fetched(page[i])]
     IN  IF page = <<>> \/ Len(buf) >= hist.count
         THEN hist' = [hist EXCEPT !.pc = "upsert", !.buffer = buf,
                                   !.batch = adapt(Reverse(buf)),
                                   !.pages = hist.pages + 1]
         ELSE hist' = [hist EXCEPT !.buffer = buf, !.next = page[1],
                                   !.pages = hist.pages + 1]
  /\ UNCHANGED <<regVars, envVars, inflight, actorVars, store, logVars, ioFailed,
                 histWrites, calls>>

\* The upsert of adapt returns inside getHistory: the records are returned;
\* getMessages puts them before the local ones.
HistoryUpsert ==
  /\ hist.pc = "upsert"
  /\ store' = upsert(store, hist.batch.rows)
  /\ histWrites' = histWrites + 1
  /\ hist' = [hist EXCEPT !.pc = "done", !.at = status,
                          !.result = hist.batch.data \o hist.local]
  /\ UNCHANGED <<regVars, envVars, inflight, actorVars, logVars, ioFailed, calls>>

\* A remote or store call of getHistory or getMessages rejects: so does
\* the call.
HistoryFail ==
  /\ hist.pc \in {"query", "fetch", "upsert"}
  /\ hist' = [hist EXCEPT !.pc = "idle"]
  /\ ioFailed' = TRUE
  /\ UNCHANGED <<regVars, envVars, inflight, actorVars, store, logVars, histWrites,
                 calls>>

\* SyncChannel.getMessages(count) is called and suspends at its query.
getMessages(count) ==
  /\ channels /\ hist.pc \in {"idle", "done"} /\ calls < MaxCalls
  /\ calls' = calls + 1
  /\ hist' = [NoCall EXCEPT !.pc = "query", !.op = "getMessages",
                            !.count = count]
  /\ UNCHANGED <<regVars, envVars, inflight, actorVars, store, logVars, ioFailed,
                 histWrites>>

\* The query of getMessages returns the newest count records; they are
\* reversed, and getHistory is called for the shortfall.
MessagesQuery ==
  /\ hist.pc = "query"
  /\ LET newest == Desc(DOMAIN store)
         rows == SubSeq(newest, 1, Min2(hist.count, Len(newest)))
         messages == [i \in 1..Len(rows) |->
                        Record(store, rows[Len(rows) + 1 - i])]
     IN  IF Len(messages) < hist.count
         THEN hist' = [hist EXCEPT !.pc = "fetch", !.local = messages,
                         !.count = hist.count - Len(messages),
                         !.next = IF messages = <<>> THEN NoId
                                  ELSE messages[1].id,
                         !.before = IF messages = <<>> THEN NoId
                                    ELSE messages[1].id]
         ELSE hist' = [hist EXCEPT !.pc = "done", !.local = messages,
                                   !.result = messages]
  /\ UNCHANGED <<regVars, envVars, inflight, actorVars, store, logVars, ioFailed,
                 histWrites, calls>>

\* ------------------------------------------------------------ send events
\* The handler of send: bot s has sent a message and the handler suspends
\* at bot.getMessage.
send(s) ==
  /\ top < MaxTop
  /\ Cardinality(sending) < MaxSending
  /\ top' = top + 1
  /\ remote' = remote \cup {top + 1}
  /\ sending' = sending \cup {Session(top + 1, s)}
  /\ UNCHANGED <<histVars, order, maxAge, metaAssignee, stopped, inflight,
                 actorVars, store, logVars, ioFailed, message, updates,
                 identity, created>>

\* bot.getMessage of the send handler returns: the content is refreshed and
\* #onMessage(session) suspends at database.getChannel.
sendFetched(e) ==
  /\ e \in sending
  /\ sending' = sending \ {e}
  /\ inflight' = inflight \cup {e}
  /\ UNCHANGED <<histVars, envVars, actorVars, store, logVars, ioFailed,
                 message, updates, identity, created>>

\* bot.getMessage of the send handler rejects: the handler throws and the
\* session is lost.
sendFetchFail(e) ==
  /\ e \in sending
  /\ sending' = sending \ {e}
  /\ ioFailed' = TRUE
  /\ UNCHANGED <<histVars, envVars, inflight, actorVars, store, logVars,
                 message, updates, identity, created>>

\* ------------------------------------------------------ edits and deletes
\* database.set(table, { messageId, platform }, patch): the rows of that
\* key are patched, no row is created
set(t, m, op) ==
  [k \in DOMAIN t |->
     IF k # m THEN t[k]
     ELSE IF op = "updated" THEN [t[k] EXCEPT !.content = "edited"]
     ELSE [t[k] EXCEPT !.deleted = TRUE]]

\* what a handler of an edit or delete event of message m meets
Update(m, op, ok) ==
  [id |-> m, op |-> op, ok |-> ok,
   at |-> IF channels THEN status ELSE "none",
   stopped |-> stopped,
   accepted |-> \E i \in 1..Len(queued) :
                  queued[i].id = m /\ ~queued[i].rejected,
   stored |-> m \in DOMAIN store]

\* The handler of message-updated: message m was edited upstream and
\* database.set('message', ...) returns.
messageUpdated(m) ==
  /\ Cardinality(updates) < MaxUpdates
  /\ Update(m, "updated", TRUE) \notin updates
  /\ updates' = updates \cup {Update(m, "updated", TRUE)}
  /\ message' = set(message, m, "updated")
  /\ UNCHANGED <<histVars, envVars, inflight, actorVars, store, logVars,
                 ioFailed, sending, identity, created>>

\* The handler of message-deleted: message m was deleted upstream and
\* database.set('message', ...) returns.
messageDeleted(m) ==
  /\ Cardinality(updates) < MaxUpdates
  /\ Update(m, "deleted", TRUE) \notin updates
  /\ updates' = updates \cup {Update(m, "deleted", TRUE)}
  /\ message' = set(message, m, "deleted")
  /\ UNCHANGED <<histVars, envVars, inflight, actorVars, store, logVars,
                 ioFailed, sending, identity, created>>

\* database.set of one of the two handlers rejects: the handler throws to
\* the emitter of the event.
setFail(m, op) ==
  /\ Cardinality(updates) < MaxUpdates
  /\ Update(m, op, FALSE) \notin updates
  /\ updates' = updates \cup {Update(m, op, FALSE)}
  /\ ioFailed' = TRUE
  /\ UNCHANGED <<histVars, envVars, inflight, actorVars, store, logVars,
                 message, sending, identity, created>>

Next ==
  \/ \E ss \in SUBSET Bots : NewMessage(ss)
  \/ \E b \in Bots : ChangeAssignee(b)
  \/ stop
  \/ \E e \in inflight : onMessage(e)
  \/ \E e \in inflight : onMessageFail(e)
  \/ InitQueryOldest
  \/ InitQueryNewest
  \/ InitQueryFail
  \/ SyncPage
  \/ SyncPageFail
  \/ \E f \in flushes : flush(f)
  \/ \E f \in flushes : flushFail(f)

\* the live synchronisation alone
Spec == Init /\ [][Next]_vars

NextHistory ==
  \/ NewMessage({metaAssignee})
  \/ \E e \in inflight : onMessage(e)
  \/ InitQueryOldest
  \/ InitQueryNewest
  \/ InitQueryFail
  \/ SyncPage
  \/ SyncPageFail
  \/ \E f \in flushes : flush(f)
  \/ \E f \in flushes : flushFail(f)
  \/ \E c \in 1..MaxCount : \E m \in 0..top : getHistory(c, m)
  \/ \E c \in 1..MaxCount : getMessages(c)
  \/ HistoryPage
  \/ HistoryUpsert
  \/ HistoryFail
  \/ MessagesQuery

\* the live synchronisation of one bot with on-demand history requests
InitHistory == Init /\ maxAge = Week

SpecHistory == InitHistory /\ [][NextHistory]_vars

NextEdit ==
  \/ NewMessage({metaAssignee})
  \/ stop
  \/ \E e \in inflight : onMessage(e)
  \/ InitQueryOldest
  \/ InitQueryNewest
  \/ InitQueryFail
  \/ SyncPage
  \/ \E f \in flushes : flush(f)
  \/ \E f \in flushes : flushFail(f)
  \/ \E m \in 1..top : messageUpdated(m)
  \/ \E m \in 1..top : messageDeleted(m)
  \/ \E m \in 1..top : \E op \in {"updated", "deleted"} : setFail(m, op)

\* the live synchronisation of one bot with edit and delete events
InitEdit == Init /\ maxAge = Week /\ order = "asc"

SpecEdit == InitEdit /\ [][NextEdit]_vars

NextRegistry ==
  \/ NewMessage({metaAssignee})
  \/ send(metaAssignee)
  \/ \E e \in sending : sendFetched(e)
  \/ \E e \in sending : sendFetchFail(e)
  \/ \E e \in inflight : onMessage(e)
  \/ InitQueryOldest
  \/ InitQueryNewest
  \/ SyncPage
  \/ \E f \in flushes : flush(f)

\* the registry of one bot with received and sent messages
InitRegistry == Init /\ maxAge = Week /\ order = "asc"

SpecRegistry == InitRegistry /\ [][NextRegistry]_vars

TypeOK ==
  /\ status \in {"SYNCING", "SYNCED", "FAILED"}
  /\ initTask \in {"unset", "pending", "fulfilled", "rejected"}
  /\ queueTask \in {"resolved", "pending", "rejected"}
  /\ initPc \in {"idle", "query", "fetch", "flush", "done"}

\* ----------------------------------------------------------------- claims
Accepted == SelectSeq(queued, LAMBDA q : ~q.rejected)
LiveRecords ==
  {buffer[i] : i \in 1..Len(buffer)}
  \cup UNION {{f.batch.data[i] : i \in 1..Len(f.batch.data)} : f \in flushes}
  \cup {Record(store, k) : k \in DOMAIN store}

\* C1: the sender of the first call of queue becomes the assignee and stays
\* it; a later session is rejected exactly when its sender differs, and
\* every live record in _buffer, in a running flush or in the store comes
\* from the assignee.
C1_SingleWriter ==
  /\ queued = <<>> => data.assignee = NoBot
  /\ queued # <<>> => /\ ~queued[1].rejected
                      /\ data.assignee = queued[1].selfId
  /\ \A i \in 1..Len(queued) :
       queued[i].rejected <=> queued[i].selfId # data.assignee
  /\ \A r \in LiveRecords : r.live => r.selfId = data.assignee

\* C1 witness: the configured assignee has changed, a session of the other
\* bot reached queue and was rejected, and a live record is stored.
C1_Witness ==
  /\ \E i \in 1..Len(queued) : queued[i].rejected
  /\ metaAssignee # data.assignee
  /\ \E k \in DOMAIN store : store[k].live

\* C2: the status only moves SYNCING -> SYNCED, SYNCING -> FAILED or
\* SYNCED -> FAILED: FAILED is never left and SYNCED never returns to
\* SYNCING.
C2_StatusMoves ==
  [][/\ status = "FAILED" => status' = "FAILED"
     /\ status = "SYNCED" => status' \in {"SYNCED", "FAILED"}]_vars

\* C2 witness: a flush failed after _init had succeeded, and queue was
\* called on the failed actor.
C2_Witness ==
  /\ status = "FAILED" /\ initTask = "fulfilled"
  /\ \E i \in 1..Len(queued) : queued[i].at = "FAILED"

\* C3: while the status is FAILED no flush is running or chained, and no
\* step (a call of queue among them) starts a flush or changes the store.
C3_AbsorbingFailure ==
  [][status = "FAILED" =>
       /\ flushes = {} /\ chain = <<>>
       /\ flushes' = {} /\ chain' = <<>>
       /\ flushed' = flushed /\ store' = store]_vars

\* C3 witness: _init failed, and a session was pushed by a call of queue
\* made on the failed actor.
C3_Witness ==
  /\ status = "FAILED" /\ initTask = "rejected"
  /\ \E i \in 1..Len(queued) : queued[i].at = "FAILED" /\ ~queued[i].rejected
  /\ buffer # <<>>

\* C4 as stated: once the status is FAILED no operation of the actor
\* upserts, getHistory and getMessages included.
C4_NoUpsertOnceFailed ==
  [][status = "FAILED" =>
       /\ store' = store /\ histWrites' = histWrites
       /\ flushed' = flushed]_vars

\* C4 as amended: once the status is FAILED no flush runs or upserts; the
\* store changes only through the upsert of getHistory, which does not look
\* at the status.
C4_OnlyHistoryWritesOnceFailed ==
  [][status = "FAILED" =>
       /\ flushes' = {} /\ flushed' = flushed
       /\ store' # store =>
            /\ histWrites' = histWrites + 1
            /\ hist.pc = "upsert" /\ hist'.at = "FAILED"]_vars

\* C4 witness: getHistory upserted rows while the status was FAILED, after
\* a call of queue on the failed actor.
C4_Witness ==
  /\ status = "FAILED"
  /\ hist.pc = "done" /\ hist.at = "FAILED" /\ hist.batch.rows # <<>>
  /\ \E i \in 1..Len(queued) : queued[i].at = "FAILED"

\* C5: the body of _init is started at most once; every callback that
\* awaited it saw the outcome the task has, and a settled task is over.
C5_SingleFlight ==
  /\ initStarts <= 1
  /\ \A i \in 1..Len(observed) : observed[i] = initTask
  /\ waiting > 0 => initTask = "pending"
  /\ initTask \in {"fulfilled", "rejected"} => initPc = "done"
  /\ initTask = "unset" <=> initStarts = 0

\* C5 witness: two callbacks awaited the same _init and saw it fulfilled,
\* and queue was called again afterwards.
C5_Witness ==
  /\ Len(observed) >= 2 /\ initTask = "fulfilled"
  /\ \E i \in 1..Len(queued) : queued[i].at = "SYNCED"

\* C6: at most one execution of flush is in progress; while _init is in
\* progress it is the flush of syncHistory; the chained flushes start in the
\* order of their tickets.
C6_Serialized ==
  /\ Cardinality(flushes) <= 1
  /\ \A f \in flushes :
       IF initPc \in {"query", "fetch", "flush"} THEN f.by = "init"
       ELSE f.by = "queue" /\ f.ticket = lastStarted
  /\ \A i \in 1..Len(chain) :
       /\ chain[i] > lastStarted
       /\ i > 1 => chain[i] > chain[i - 1]
  /\ chain # <<>> => flushes # {}

\* C6 witness: one flush is at its upsert and two more are chained behind
\* it.
C6_Witness ==
  /\ Cardinality(flushes) = 1 /\ Len(chain) >= 2

IdSeq(q) == [i \in 1..Len(q) |-> q[i].id]
Range(a, b) == [i \in 1..(b + 1 - a) |-> a + i - 1]
RECURSIVE Rows(_)
Rows(log) == IF log = <<>> THEN <<>>
             ELSE IdSeq(Head(log).rows) \o Rows(Tail(log))
NoDuplicate(q) == \A i, j \in 1..Len(q) : q[i] = q[j] => i = j

\* _init has backfilled from a rear the remote source still serves, has
\* completed, and the buffer has been flushed
Backfilled ==
  /\ initTask = "fulfilled" /\ final # NoId /\ final \in remote
  /\ flushes = {} /\ buffer = <<>>

\* the events of q have increasing message ids
InOrder(q) == \A i, j \in 1..Len(q) : i < j => q[i].id < q[j].id

BackfillEnded(f) == f \in flushes /\ f.by = "init" /\ f.iter = 1

Idle ==
  /\ inflight = {} /\ flushes = {}
  /\ initPc \notin {"query", "fetch", "flush"}

\* C9 as stated, at rest: with the service not stopped and no store or
\* remote call failed, every session accepted by queue has been upserted
\* and carried by a chat/message event once nothing is left to run.
C9_AllPersisted ==
  (~stopped /\ ~ioFailed /\ Idle) =>
    \A i \in 1..Len(Accepted) :
      Accepted[i].id \in DOMAIN store /\ Accepted[i].id \in notified

\* C10 as stated: an actor whose status is FAILED has emitted
\* messages/syncFailed.
C10_FailureSignalled == status = "FAILED" => syncFailed >= 1

\* row r after the patch of an edit (op = "updated") or delete handler
Patched(r, op) ==
  IF op = "updated" THEN [r EXCEPT !.content = "edited"]
  ELSE [r EXCEPT !.deleted = TRUE]

\* C11 as stated: a step of the edit or delete handler, in whatever state
\* the actor is, leaves status, assignee, initial, _buffer, the tasks and
\* the running flushes of the actor as they are, and when its database.set
\* succeeds the record of that messageId in the store of the actor carries
\* the patch.
C11_EditsBypassActor ==
  [][updates' # updates =>
       /\ status' = status /\ data' = data /\ buffer' = buffer
       /\ initTask' = initTask /\ queueTask' = queueTask
       /\ flushes' = flushes /\ chain' = chain /\ channels' = channels
       /\ \E u \in updates' \ updates :
            /\ updates' = updates \cup {u}
            /\ (u.ok /\ u.id \in DOMAIN store) =>
                 store'[u.id] = Patched(store[u.id], u.op)]_vars

\* C12 as stated: a session passed to queue after MessageService.stop is
\* never written to the store.
C12_StoppedNotWritten ==
  \A i \in 1..Len(queued) :
    (queued[i].stopped /\ ~queued[i].rejected) =>
      ~(queued[i].id \in DOMAIN store /\ store[queued[i].id].live)

\* the ids of q grow strictly
Chronological(q) == \A i, j \in 1..Len(q) : i < j => q[i] < q[j]

\* C13 as stated: with the remote source returning its pages newest first,
\* what getHistory(count, next) returns is strictly chronological, so
\* without a repeated message, and holds only messages older than next.
C13_HistoryChronological ==
  (hist.op = "getHistory" /\ hist.pc = "done" /\ order = "desc") =>
    /\ Chronological(IdSeq(hist.result))
    /\ \A i \in 1..Len(hist.result) :
         hist.before = NoId \/ hist.result[i].id < hist.before

\* C14 as stated: with the remote source returning its pages newest first,
\* what getMessages(count) returns is strictly chronological, so without a
\* repeated record; it ends with the newest stored records, and the
\* records before them were fetched and are older than every stored one.
C14_RecentChronological ==
  (hist.op = "getMessages" /\ hist.pc = "done" /\ order = "desc") =>
    /\ Chronological(IdSeq(hist.result))
    /\ \A i \in 1..Len(hist.result) :
         i <= Len(hist.result) - Len(hist.local) =>
           /\ ~hist.result[i].live
           /\ hist.before = NoId \/ hist.result[i].id < hist.before
    /\ SubSeq(hist.result, Len(hist.result) - Len(hist.local) + 1,
              Len(hist.result)) = hist.local

\* _init has run on an empty store and no store or remote call has failed
EmptyInit == initPc = "done" /\ final = NoId /\ ~ioFailed

\* C15 as stated: after _init on an empty store no page was fetched, the
\* status is SYNCED, chat/channel was emitted once, and once the buffer is
\* flushed the store holds exactly the sessions accepted by queue.
C15_EmptyInit ==
  EmptyInit =>
    /\ next = NoId /\ status = "SYNCED" /\ channelReady = 1
    /\ (flushes = {} /\ buffer = <<>>) => DOMAIN store = Ids(Accepted)

\* C15 as amended: as stated, but the store holds the accepted sessions
\* whose age was below maxAge when they were flushed: it holds nothing
\* else, and every accepted session whose age is below maxAge now.
C15_EmptyInitRetained ==
  EmptyInit =>
    /\ next = NoId /\ status = "SYNCED" /\ channelReady = 1
    /\ (flushes = {} /\ buffer = <<>>) =>
         /\ DOMAIN store \subseteq Ids(Accepted)
         /\ \A k \in DOMAIN store : store[k].live
         /\ \A i \in 1..Len(Accepted) :
              top - Accepted[i].id < maxAge => Accepted[i].id \in DOMAIN store

\* C15 witness: _init ran on an empty store, two sessions were accepted and
\* flushed, and the store holds exactly these two.
C15_Witness ==
  /\ EmptyInit /\ flushes = {} /\ buffer = <<>>
  /\ Len(Accepted) = 2 /\ DOMAIN store = Ids(Accepted)
  /\ status = "SYNCED" /\ channelReady = 1

\* C16 as stated: when the remote source no longer serves rear and no store
\* or remote call fails, the backfill ends at the empty page and _init
\* completes with status SYNCED.
C16_ExhaustionIsNormal ==
  (final > NoId /\ final \notin remote /\ initPc = "done" /\ ~ioFailed) =>
    initTask = "fulfilled" /\ status = "SYNCED"

\* the ids of the sessions of q, in order
LiveIds(q) == IdSeq(SelectSeq(q, LAMBDA r : r.live))

\* the records of the batches of log, in order
RECURSIVE Taken(_)
Taken(log) == IF log = <<>> THEN <<>>
              ELSE Head(log).data \o Taken(Tail(log))

\* the batch of the flush that is at its upsert
Running == IF flushes = {} THEN <<>>
           ELSE (CHOOSE f \in flushes : TRUE).batch.data

\* p can be obtained from q by leaving elements out
RECURSIVE IsSubSeq(_, _)
IsSubSeq(p, q) ==
  IF p = <<>> THEN TRUE
  ELSE IF q = <<>> THEN FALSE
  ELSE IF Head(p) = Head(q) THEN IsSubSeq(Tail(p), Tail(q))
  ELSE IsSubSeq(p, Tail(q))

\* C17: the sessions of the batches upserted so far, then of the batch
\* being upserted, then of _buffer, are sessions accepted by queue, each
\* once and in the order of their push; while no store or remote call has
\* failed they are all of them, so a batch is the whole buffer of its
\* moment and nothing taken stays behind.
C17_BatchesInOrder ==
  LET seen == LiveIds(Taken(flushed)) \o LiveIds(Running) \o LiveIds(buffer)
  IN  /\ IsSubSeq(seen, IdSeq(Accepted))
      /\ ~ioFailed => seen = IdSeq(Accepted)
      /\ \A f \in flushes : f.batch.data # <<>>

\* C17 witness: a session arrived while a flush was at its upsert; two
\* batches were upserted, one of them with two sessions, and nothing is
\* left.
C17_Witness ==
  /\ Len(flushed) >= 2 /\ flushes = {} /\ buffer = <<>> /\ ~ioFailed
  /\ \E b \in 1..Len(flushed) : Len(LiveIds(flushed[b].data)) >= 2
  /\ Len(Accepted) >= 3

\* C18 as stated: the actor of the registry carries the platform, guildId
\* and channelId of the events it is given, and one actor is constructed
\* for the channel.
C18_RegistryRouting ==
  channels => identity = EventChannel /\ created = 1

\* C19 as stated: the sessions reach queue in the order in which their
\* events were delivered to the registry, which is the order of their
\* message ids.
C19_ArrivalOrder == InOrder(queued)

\* C20 as stated: when an edit or delete event of a message was handled
\* after its session had been accepted by queue, then once nothing is left
\* to run and nothing has failed the record of the message in the store
\* carries the edited content, respectively the deleted mark.
C20_EditsNotLost ==
  (Idle /\ buffer = <<>> /\ ~ioFailed /\ status = "SYNCED") =>
    \A u \in updates :
      (u.ok /\ u.accepted) =>
        /\ u.id \in DOMAIN store
        /\ u.op = "updated" => store[u.id].content = "edited"
        /\ u.op = "deleted" => store[u.id].deleted

====
